---- MODULE Spec2Model ----
(***************************************************************************)
(* Model of pyflakes/scripts/pyflakes.py: the Reporter, check, checkPath   *)
(* and main.  Strings are sequences of one-character strings, a path is a  *)
(* sequence of names, an optional value (Python None) is a sequence of     *)
(* length at most one.                                                     *)
(***************************************************************************)
EXTENDS Integers, Sequences, FiniteSets, TLC

VARIABLES
    pc,         \* position of the running entry point
    args,       \* sys.argv[1:]
    fs,         \* the file system: path -> kind, for the paths that exist
    argi,       \* index of the next argument main's loop takes
    pending,    \* paths the current argument still hands to checkPath
    cur,        \* filename of the unit being processed
    content,    \* source text read for the unit being processed
    reporter,   \* the reporter argument of the call (None or a Reporter)
    fh,         \* 1 while the file object of line 121 is referenced, else 0
    garbage,    \* file objects no longer referenced and not yet finalised
    warnings,   \* main's accumulator
    returned,   \* the counts check/checkPath have returned to main, in order
    exitStatus, \* argument of SystemExit, None before line 144
    streams,    \* what has been written to each output stream
    handed,     \* the checkPath calls of main so far: argument index, path
    last        \* the most recent call of check/checkPath that ended

vars == <<pc, args, fs, argi, pending, cur, content, reporter, fh, garbage,
          warnings, returned, exitStatus, streams, handed, last>>

----------------------------------------------------------------------------
(* Bounds of the model *)

MaxLen == 3
MaxOffset == 3
MaxFindings == 3
MaxLine == 2
MaxNodes == 3
MaxArgs == 2

----------------------------------------------------------------------------
(* Values *)

None == <<>>
Some(x) == <<x>>

NL == "\n"
CR == "\r"
Chars == {"a", NL, CR}

\* the '.py' of line 136
PySuffix == <<".", "p", "y">>

\* '<stdin>' of line 142, as a path of one name
StdinName == << <<"<stdin>">> >>

RECURSIVE SeqsUpTo(_, _)
SeqsUpTo(S, n) ==
    IF n = 0 THEN {<<>>}
    ELSE LET shorter == SeqsUpTo(S, n - 1)
         IN  shorter \cup {Append(s, x) : s \in shorter, x \in S}

Last(s) == s[Len(s)]
Front(s) == SubSeq(s, 1, Len(s) - 1)

RECURSIVE Concat(_)
Concat(ss) == IF ss = <<>> THEN <<>> ELSE Head(ss) \o Concat(Tail(ss))

RECURSIVE SumSeq(_)
SumSeq(s) == IF s = <<>> THEN 0 ELSE Head(s) + SumSeq(Tail(s))

----------------------------------------------------------------------------
(* str.splitlines, str.endswith, str * int *)

\* text.splitlines(): lines end at "\n", "\r" or "\r\n"; the terminators are
\* dropped; no empty last line is produced after a final terminator.
RECURSIVE splitFrom(_, _, _, _)
splitFrom(text, i, line, acc) ==
    IF i > Len(text)
    THEN IF line = <<>> /\ (i = 1 \/ text[i - 1] \in {NL, CR}) THEN acc
         ELSE Append(acc, line)
    ELSE IF text[i] = NL THEN splitFrom(text, i + 1, <<>>, Append(acc, line))
    ELSE IF text[i] = CR
         THEN IF i < Len(text) /\ text[i + 1] = NL
              THEN splitFrom(text, i + 2, <<>>, Append(acc, line))
              ELSE splitFrom(text, i + 1, <<>>, Append(acc, line))
    ELSE splitFrom(text, i + 1, Append(line, text[i]), acc)

splitlines(text) == splitFrom(text, 1, <<>>, <<>>)

\* filename.endswith(suffix)
endswith(name, suffix) ==
    /\ Len(name) >= Len(suffix)
    /\ SubSeq(name, Len(name) - Len(suffix) + 1, Len(name)) = suffix

\* " " * n : the empty string when n <= 0
Spaces(n) == [i \in 1..(IF n > 0 THEN n ELSE 0) |-> " "]

----------------------------------------------------------------------------
(* class Reporter *)

\* Reporter.__init__: the reporter holds the stream it writes to
Reporter(errorStream) == [stderr |-> errorStream]

\* One run's output: the streams and the reporter calls made so far.
NoOutput(ss) == [streams |-> ss, calls |-> <<>>]

\* stream.write(s)
write(o, stream, s) == [o EXCEPT !.streams[stream] = Append(@, s)]

\* msg.args of an IOError: (errno, strerror); Python's args[1] is the strerror
IOErrorValue(errno, strerror) == [args |-> <<errno, strerror>>]

\* Reporter.ioError(filename, msg)
ioError(self, o, filename, msg) ==
    LET o1 == [o EXCEPT !.calls = Append(@,
                 [method |-> "ioError", filename |-> filename,
                  msg |-> msg.args[2]])]
    IN  write(o1, self.stderr,
              [fmt |-> "%s: %s\n", filename |-> filename, msg |-> msg.args[2]])

\* Reporter.problemDecodingSource(filename)
problemDecodingSource(self, o, filename) ==
    LET o1 == [o EXCEPT !.calls = Append(@,
                 [method |-> "problemDecodingSource", filename |-> filename])]
        o2 == write(o1, self.stderr, [fmt |-> "%s", filename |-> filename])
    IN  write(o2, self.stderr, [fmt |-> ": problem decoding source\n"])

\* Reporter.syntaxError(filename, msg, lineno, offset, line)
syntaxError(self, o, filename, msg, lineno, offset, line) ==
    LET o1 == [o EXCEPT !.calls = Append(@,
                 [method |-> "syntaxError", filename |-> filename, msg |-> msg,
                  lineno |-> lineno, offset |-> offset, line |-> line])]
        o2 == write(o1, self.stderr,
                    [fmt |-> "%s:%d: %s\n", filename |-> filename,
                     lineno |-> lineno, msg |-> msg])
        o3 == write(o2, self.stderr, [fmt |-> "text", text |-> line])
        o4 == write(o3, self.stderr, [fmt |-> "text", text |-> <<NL>>])
    IN  IF offset # None
        THEN write(o4, self.stderr,
                   [fmt |-> "text",
                    text |-> Spaces(offset[1] + 1) \o <<"^", NL>>])
        ELSE o4

----------------------------------------------------------------------------
(* check *)

\* A source text is known by what the parser and the analysis make of it:
\* parse.kind is "tree" (it compiles), "SyntaxError" (with the exception's
\* msg, lineno, offset and text) or the name of another exception compile
\* raises; tree.findings are the line numbers of the messages the analysis
\* appends, in order, unless tree.analysis is "raise".  src is the text
\* itself as far as it matters: empty, or not.
NoValue == [msg |-> "", lineno |-> 0, offset |-> None, text |-> None]
NoTree == [analysis |-> "ok", findings |-> <<>>]

Source(src, kind, value, tree) ==
    [src |-> src, parse |-> [kind |-> kind, value |-> value, tree |-> tree]]

\* codeString + '\n' (line 121)
plusNewline(codeString) == [codeString EXCEPT !.src = Append(@, NL)]

\* compile(codeString, filename, "exec", _ast.PyCF_ONLY_AST)
compile(codeString) == codeString.parse

\* checker.Checker(tree, filename).messages, in the order the analysis
\* appended them, one message per finding; or the analysis raises.
Checker(tree, filename) ==
    [raises |-> tree.analysis = "raise",
     messages |-> [i \in 1..Len(tree.findings) |->
                     [filename |-> filename, lineno |-> tree.findings[i],
                      arrival |-> i]]]

\* cmp(a, b)
cmp(a, b) == IF a < b THEN -1 ELSE IF a > b THEN 1 ELSE 0

\* A sort that puts an element before the elements it compares equal to.
insortBefore(sorted, x) ==
    LET k == Cardinality({i \in 1..Len(sorted) :
                             cmp(sorted[i].lineno, x.lineno) < 0})
    IN  SubSeq(sorted, 1, k) \o <<x>> \o SubSeq(sorted, k + 1, Len(sorted))

\* list.sort(cmpfunc) is stable: each element goes after the elements that
\* do not compare greater than it.
insort(sorted, x) ==
    LET k == Cardinality({i \in 1..Len(sorted) :
                             cmp(sorted[i].lineno, x.lineno) <= 0})
    IN  SubSeq(sorted, 1, k) \o <<x>> \o SubSeq(sorted, k + 1, Len(sorted))

\* w.messages.sort(lambda a, b: cmp(a.lineno, b.lineno))
RECURSIVE sortMessages(_)
sortMessages(messages) ==
    IF messages = <<>> THEN <<>>
    ELSE insort(sortMessages(Front(messages)), Last(messages))

\* for warning in w.messages: print warning
RECURSIVE printAll(_, _)
printAll(o, messages) ==
    IF messages = <<>> THEN o
    ELSE printAll(write(o, "stdout", [fmt |-> "%s\n", obj |-> Head(messages)]),
                  Tail(messages))

\* text.splitlines()[-1] (line 95)
lastLine(text) == Last(splitlines(text))

\* An offset that is kept inside the line.
clampedOffset(offset, text, line) ==
    IF offset # None
    THEN LET n == offset[1] - (Len(text) - Len(line))
         IN  Some(IF n < 0 THEN 0 ELSE n)
    ELSE offset

\* lines 96-97
recomputeOffset(offset, text, line) ==
    IF offset # None THEN Some(offset[1] - (Len(text) - Len(line))) ELSE offset

\* A handler that reports every SyntaxError with the parser's message.
reportAlways(value, filename, rep, o) ==
    LET text == IF value.text = None THEN <<"a">> ELSE value.text[1]
        line == lastLine(text)
    IN  syntaxError(rep, o, filename, value.msg, value.lineno,
                    recomputeOffset(value.offset, text, line), line)

\* lines 83-98: the except SyntaxError clause
handleSyntaxError(value, filename, rep, o) ==
    IF value.text = None
    THEN problemDecodingSource(rep, o, filename)
    ELSE LET line == lastLine(value.text[1])
             offset == recomputeOffset(value.offset, value.text[1], line)
         IN  syntaxError(rep, o, filename, value.msg, value.lineno, offset, line)

\* lines 78-79 and 118-119: if reporter is None: reporter = Reporter(sys.stderr)
orDefault(reporterArg) ==
    IF reporterArg = None THEN Reporter("stderr") ELSE reporterArg[1]

\* check(codeString, filename, reporter): the output o extended, and either
\* the returned count or the exception that leaves the function.
check(codeString, filename, reporterArg, o) ==
    LET rep == orDefault(reporterArg)
        r == compile(codeString)
    IN  IF r.kind = "SyntaxError"
        THEN [raised |-> "none", ret |-> 1,
              o |-> handleSyntaxError(r.value, filename, rep, o)]
        ELSE IF r.kind # "tree"
        THEN [raised |-> r.kind, ret |-> 0, o |-> o]
        ELSE LET w == Checker(r.tree, filename)
             IN  IF w.raises
                 THEN [raised |-> "AnalysisError", ret |-> 0, o |-> o]
                 ELSE LET messages == sortMessages(w.messages)
                      IN  [raised |-> "none", ret |-> Len(messages),
                           o |-> printAll(o, messages)]

----------------------------------------------------------------------------
(* The file system, os.path and os.walk *)

NameSeq == << <<"a", ".", "p", "y">>, <<"p", "y">> >>
Names == {NameSeq[i] : i \in DOMAIN NameSeq}

DirKinds == {"dir", "dirlink", "baddir"}

kindOf(path) == IF path \in DOMAIN fs THEN fs[path] ELSE "none"

\* os.path.isdir follows symbolic links
isdir(path) == kindOf(path) \in DirKinds

\* os.path.islink
islink(path) == kindOf(path) = "dirlink"

\* os.path.join(dirpath, filename)
join(dirpath, filename) == Append(dirpath, filename)

\* os.listdir(top), in the order the system lists the entries
listdir(top) == SelectSeq(NameSeq, LAMBDA n : join(top, n) \in DOMAIN fs)

\* os.walk(top): nothing when top cannot be listed (the error is dropped,
\* onerror is None); else (top, dirs, nondirs) and then the walk of each
\* entry of dirs that is not a symbolic link (followlinks is False).
RECURSIVE walk(_)
walk(top) ==
    IF kindOf(top) = "baddir" THEN <<>>
    ELSE LET names == listdir(top)
             dirs == SelectSeq(names, LAMBDA n : isdir(join(top, n)))
             nondirs == SelectSeq(names, LAMBDA n : ~isdir(join(top, n)))
             below == [i \in 1..Len(dirs) |->
                         IF ~islink(join(top, dirs[i]))
                         THEN walk(join(top, dirs[i])) ELSE <<>>]
         IN  <<[dirpath |-> top, dirnames |-> dirs, filenames |-> nondirs]>>
             \o Concat(below)

\* A traversal that takes every file, whatever its name.
unitsOfAnyName(arg) ==
    IF isdir(arg)
    THEN LET w == walk(arg)
         IN  Concat([i \in 1..Len(w) |->
                 [j \in 1..Len(w[i].filenames) |->
                     join(w[i].dirpath, w[i].filenames[j])]])
    ELSE <<arg>>

\* lines 133-140: the paths main hands to checkPath for one argument
unitsOf(arg) ==
    IF isdir(arg)
    THEN LET w == walk(arg)
         IN  Concat([i \in 1..Len(w) |->
                 LET py == SelectSeq(w[i].filenames,
                                     LAMBDA n : endswith(n, PySuffix))
                 IN  [j \in 1..Len(py) |-> join(w[i].dirpath, py[j])]])
    ELSE <<arg>>

----------------------------------------------------------------------------
(* Inputs *)

Texts == SeqsUpTo(Chars, MaxLen) \ {<<>>}
Offsets == {None} \cup {Some(k) : k \in 0..MaxOffset}

\* The SyntaxError values compile can raise: text is None when the source
\* could not be decoded, else the non-empty text of the failing line(s).
SyntaxErrors ==
    [msg : {"invalid syntax"}, lineno : 1..MaxLine, offset : Offsets,
     text : {None} \cup {Some(t) : t \in Texts}]

Trees ==
    [analysis : {"ok"}, findings : SeqsUpTo(1..MaxLine, MaxFindings)]
    \cup {[analysis |-> "raise", findings |-> <<>>]}

EmptySource == Source(<<>>, "tree", NoValue, NoTree)

\* The source texts check is tried on.
CheckSources ==
    {EmptySource}
    \cup {Source(<<"a">>, "tree", NoValue, t) : t \in Trees}
    \cup {Source(<<"a">>, "SyntaxError", v, NoTree) : v \in SyntaxErrors}
    \cup {Source(<<"a">>, "TypeError", NoValue, NoTree)}

\* The contents files have in a run of main, and those of standard input.
FileSources ==
    { EmptySource,
      Source(<<"a">>, "tree", NoValue, [analysis |-> "ok", findings |-> <<2, 1>>]),
      Source(<<"a">>, "TypeError", NoValue, NoTree) }

StdinSources ==
    FileSources
    \cup {Source(<<"a">>, "SyntaxError",
                 [msg |-> "invalid syntax", lineno |-> 1, offset |-> Some(2),
                  text |-> Some(<<"a", NL>>)], NoTree)}

RECURSIVE PathSetsUpTo(_)
PathSetsUpTo(n) ==
    IF n = 0 THEN {{}}
    ELSE LET T == PathSetsUpTo(n - 1)
         IN  T \cup UNION {{s \cup {join(q, nm)} : q \in s \cup {<<>>}, nm \in Names}
                            : s \in T}

\* A directory entry with entries beneath it is a directory of some kind;
\* the others are plain files.
FileSystems ==
    UNION {{f \in [s -> {"file"} \cup DirKinds] :
              \A p \in s :
                 IF \E nm \in Names : join(p, nm) \in s
                 THEN f[p] \in DirKinds
                 ELSE f[p] = "file"}
           : s \in PathSetsUpTo(MaxNodes)}

ArgLists == SeqsUpTo({<<nm>> : nm \in Names}, MaxArgs)

EmptyStreams == [stdout |-> <<>>, stderr |-> <<>>, err |-> <<>>]

NoCall ==
    [op |-> "none", filename |-> <<>>, io |-> "none", checkRan |-> FALSE,
     raised |-> "none", ret |-> 0, calls |-> <<>>, printed |-> <<>>]

\* What a call wrote to standard output: the objects printed
printedSince(before, after) ==
    [i \in 1..(Len(after.stdout) - Len(before.stdout)) |->
        after.stdout[Len(before.stdout) + i].obj]

----------------------------------------------------------------------------
(* main *)

\* An accumulator that keeps only the last count.
overwrite(w, n) == n

\* warnings += n (lines 137, 140, 142)
accumulate(w, n) == w + n

\* SystemExit(warnings > 0) (line 144)
exitValue(w) == w > 0

\* A call of check or checkPath, or main's own read, has ended: by the
\* exception exc, or (exc "none") returning n.
callEnded(op, filename, io, ran, exc, n, o, next) ==
    /\ pc' = next
    /\ streams' = o.streams
    /\ last' = [op |-> op, filename |-> filename, io |-> io, checkRan |-> ran,
                raised |-> exc, ret |-> n, calls |-> o.calls,
                printed |-> printedSince(streams, o.streams)]

\* The call was left by an exception: main does not catch it.
escapes(op, filename, io, ran, exc, o) ==
    /\ callEnded(op, filename, io, ran, exc, 0, o, "crashed")
    /\ UNCHANGED <<warnings, returned>>

\* The call returned n to main: main adds n to warnings.
returns(op, filename, io, ran, n, o, next) ==
    /\ callEnded(op, filename, io, ran, "none", n, o, next)
    /\ warnings' = accumulate(warnings, n)
    /\ returned' = Append(returned, n)

Init ==
    /\ pc = "main"
    /\ args \in ArgLists
    /\ fs \in FileSystems
    /\ argi = 1
    /\ pending = <<>>
    /\ cur = <<>>
    /\ content = None
    /\ reporter = None
    /\ fh = 0
    /\ garbage = 0
    /\ warnings = 0
    /\ returned = <<>>
    /\ exitStatus = None
    /\ streams = EmptyStreams
    /\ handed = <<>>
    /\ last = NoCall

\* lines 128-131
Main_Start ==
    /\ pc = "main"
    /\ warnings' = 0
    /\ reporter' = Some(Reporter("stderr"))
    /\ pc' = IF args # <<>> THEN "loop" ELSE "stdin"
    /\ UNCHANGED <<args, fs, argi, pending, cur, content, fh, garbage, returned,
                   exitStatus, streams, handed, last>>

\* A filename that is not the sentinel.
emptyFilename == << <<>> >>

\* The filename main passes with standard input (line 142)
stdinFilename == StdinName

\* line 142: warnings += check(sys.stdin.read(), '<stdin>'); a failing read
\* of standard input raises IOError inside main.
Main_Stdin ==
    /\ pc = "stdin"
    /\ \/ /\ escapes("main", stdinFilename, "read", FALSE, "IOError",
                     NoOutput(streams))
          /\ UNCHANGED <<cur, content>>
       \/ \E u \in StdinSources :
             LET r == check(u, stdinFilename, None, NoOutput(streams))
             IN  /\ cur' = stdinFilename
                 /\ content' = Some(u)
                 /\ IF r.raised # "none"
                    THEN escapes("check", stdinFilename, "ok", TRUE, r.raised, r.o)
                    ELSE returns("check", stdinFilename, "ok", TRUE, r.ret, r.o,
                                 "exit")
    /\ UNCHANGED <<args, fs, argi, pending, reporter, fh, garbage, exitStatus,
                   handed>>

\* lines 132-136, 139: the next argument, and the paths it gives (os.walk
\* lists a directory when the loop reaches it; nothing changes the
\* directories during the run, so the list is taken at once)
Main_NextArg ==
    /\ pc = "loop"
    /\ pending = <<>>
    /\ argi <= Len(args)
    /\ pending' = unitsOf(args[argi])
    /\ argi' = argi + 1
    /\ UNCHANGED <<pc, args, fs, cur, content, reporter, fh, garbage, warnings,
                   returned, exitStatus, streams, handed, last>>

\* A clause that reports the error and counts nothing.
onIOErrorUncounted(rep, o, filename, msg) ==
    [ret |-> 0, o |-> ioError(rep, o, filename, msg)]

\* lines 122-124: the except IOError clause of checkPath
onIOError(rep, o, filename, msg) == [ret |-> 1, o |-> ioError(rep, o, filename, msg)]

\* The error file(filename, 'U') raises for a path it cannot open
openError(path) ==
    IF kindOf(path) = "none" THEN IOErrorValue(2, "No such file or directory")
    ELSE IF isdir(path) THEN IOErrorValue(21, "Is a directory")
    ELSE IOErrorValue(13, "Permission denied")

\* lines 137-140, 118-121: checkPath(path, reporter) is called and opens the
\* file; a path that is no file cannot be opened, a file may be unreadable.
CheckPath_Open ==
    /\ pc = "loop"
    /\ pending # <<>>
    /\ LET filename == Head(pending)
       IN  /\ cur' = filename
           /\ pending' = Tail(pending)
           /\ handed' = Append(handed, [arg |-> argi - 1, path |-> filename])
           /\ \/ /\ kindOf(filename) = "file"
                 /\ fh' = 1
                 /\ pc' = "read"
                 /\ UNCHANGED <<warnings, returned, streams, last>>
              \/ LET r == onIOError(orDefault(reporter), NoOutput(streams),
                                    filename, openError(filename))
                 IN  /\ fh' = 0
                     /\ returns("checkPath", filename, "open", FALSE, r.ret, r.o,
                                "loop")
    /\ UNCHANGED <<args, fs, argi, content, reporter, garbage, exitStatus>>

\* line 121: .read(); afterwards nothing refers to the file object, which
\* the runtime closes when it finalises it: at once, or later.
CheckPath_Read ==
    /\ pc = "read"
    /\ fh' = 0
    /\ \E later \in {0, 1} : garbage' = garbage + later
    /\ \/ \E u \in FileSources :
             /\ content' = Some(u)
             /\ pc' = "check"
             /\ UNCHANGED <<warnings, returned, streams, last>>
       \/ LET r == onIOError(orDefault(reporter), NoOutput(streams), cur,
                             IOErrorValue(5, "Input/output error"))
          IN  /\ returns("checkPath", cur, "read", FALSE, r.ret, r.o, "loop")
              /\ UNCHANGED content
    /\ UNCHANGED <<args, fs, argi, pending, cur, reporter, exitStatus, handed>>

\* line 121: return check(<what was read> + '\n', filename, reporter)
CheckPath_Check ==
    /\ pc = "check"
    /\ LET r == check(plusNewline(content[1]), cur, reporter, NoOutput(streams))
       IN  IF r.raised # "none"
           THEN escapes("checkPath", cur, "ok", TRUE, r.raised, r.o)
           ELSE returns("checkPath", cur, "ok", TRUE, r.ret, r.o, "loop")
    /\ UNCHANGED <<args, fs, argi, pending, cur, content, reporter, fh, garbage,
                   exitStatus, handed>>

\* The runtime finalises a file object nothing refers to, closing the file.
Finalize ==
    /\ garbage > 0
    /\ garbage' = garbage - 1
    /\ UNCHANGED <<pc, args, fs, argi, pending, cur, content, reporter, fh,
                   warnings, returned, exitStatus, streams, handed, last>>

\* line 144: raise SystemExit(warnings > 0)
Main_Exit ==
    /\ \/ pc = "exit"
       \/ pc = "loop" /\ pending = <<>> /\ argi > Len(args)
    /\ exitStatus' = Some(exitValue(warnings))
    /\ pc' = "done"
    /\ UNCHANGED <<args, fs, argi, pending, cur, content, reporter, fh, garbage,
                   warnings, returned, streams, handed, last>>

Next ==
    \/ Main_Start
    \/ Main_Stdin
    \/ Main_NextArg
    \/ CheckPath_Open
    \/ CheckPath_Read
    \/ CheckPath_Check
    \/ Finalize
    \/ Main_Exit

Spec == Init /\ [][Next]_vars

----------------------------------------------------------------------------
(* check called on its own, with and without a reporter *)

TestNames == {<< <<"t", ".", "p", "y">> >>}
TestReporters == {None, Some(Reporter("stderr")), Some(Reporter("err"))}

InitCheck ==
    /\ pc = "call"
    /\ args = <<>>
    /\ fs = <<>>
    /\ argi = 1
    /\ pending = <<>>
    /\ cur \in TestNames
    /\ content \in {Some(u) : u \in CheckSources}
    /\ reporter \in TestReporters
    /\ fh = 0
    /\ garbage = 0
    /\ warnings = 0
    /\ returned = <<>>
    /\ exitStatus = None
    /\ streams = EmptyStreams
    /\ handed = <<>>
    /\ last = NoCall

\* check(codeString, filename, reporter), lines 61-106
Call_Check ==
    /\ pc = "call"
    /\ LET r == check(content[1], cur, reporter, NoOutput(streams))
       IN  callEnded("check", cur, "ok", TRUE, r.raised, r.ret, r.o,
                     IF r.raised # "none" THEN "raised" ELSE "returned")
    /\ UNCHANGED <<args, fs, argi, pending, cur, content, reporter, fh, garbage,
                   warnings, returned, exitStatus, handed>>

NextCheck == Call_Check

SpecCheck == InitCheck /\ [][NextCheck]_vars

----------------------------------------------------------------------------
(* Properties *)

\* The source text of the call that ended last, and what the parser made of it
parsed == content[1].parse

\* C1: whenever main raises SystemExit, its argument is true exactly when
\* the sum of the counts check/checkPath returned in the run is greater
\* than zero, and the accumulator equals that sum at every moment.
C1_ExitStatus ==
    /\ warnings = SumSeq(returned)
    /\ exitStatus # None => exitStatus[1] = (SumSeq(returned) > 0)

C1_Witness ==
    /\ pc = "done"
    /\ Len(returned) >= 2
    /\ returned[1] > 0
    /\ returned[Len(returned)] = 0
    /\ exitStatus = Some(TRUE)

\* C2: for a source that compiles and whose analysis appends N messages,
\* check returns N and prints exactly those N messages, in non-decreasing
\* line-number order, messages of one line in the order they were appended.
C2_SortedStable ==
    (pc = "returned" /\ parsed.kind = "tree") =>
        LET findings == parsed.tree.findings
            e == last.printed
        IN  /\ last.ret = Len(findings)
            /\ Len(e) = Len(findings)
            /\ {e[i].arrival : i \in 1..Len(e)} = 1..Len(findings)
            /\ \A i \in 1..Len(e) :
                  /\ e[i].lineno = findings[e[i].arrival]
                  /\ e[i].filename = cur
            /\ \A i, j \in 1..Len(e) :
                  i < j => \/ e[i].lineno < e[j].lineno
                           \/ /\ e[i].lineno = e[j].lineno
                              /\ e[i].arrival < e[j].arrival

C2_Witness ==
    /\ pc = "returned"
    /\ parsed.kind = "tree"
    /\ parsed.tree.findings = <<2, 1, 2>>
    /\ [i \in 1..Len(last.printed) |-> last.printed[i].arrival] = <<2, 1, 3>>

\* line is the last physical line of text: text is some complete lines,
\* then line, then at most one line terminator.
IsLastPhysicalLine(line, text) ==
    /\ \A i \in 1..Len(line) : line[i] \notin {NL, CR}
    /\ \E k \in 0..(Len(text) - 1) :
          LET rest == SubSeq(text, k + 1, Len(text))
          IN  /\ k > 0 => text[k] \in {NL, CR}
              /\ (k > 0 /\ text[k] = CR) => rest[1] # NL
              /\ \E term \in {<<>>, <<NL>>, <<CR>>, <<CR, NL>>} :
                    rest = line \o term

\* C3: for a SyntaxError whose text is available, check returns 1 and makes
\* one reporter call, syntaxError, with the last physical line of the text
\* and, when the parser gave an offset, the offset minus the length of what
\* precedes and follows that line in the text, negative or not.
C3_SyntaxFailure ==
    (pc # "call" /\ parsed.kind = "SyntaxError" /\ parsed.value.text # None) =>
        LET value == parsed.value
            text == value.text[1]
        IN  /\ pc = "returned"
            /\ last.ret = 1
            /\ last.printed = <<>>
            /\ Len(last.calls) = 1
            /\ LET call == last.calls[1]
               IN  /\ call.method = "syntaxError"
                   /\ call.filename = cur
                   /\ call.msg = value.msg
                   /\ call.lineno = value.lineno
                   /\ IsLastPhysicalLine(call.line, text)
                   /\ IF value.offset = None THEN call.offset = None
                      ELSE call.offset =
                             Some(value.offset[1] - (Len(text) - Len(call.line)))

C3_Witness ==
    /\ pc = "returned"
    /\ parsed.kind = "SyntaxError"
    /\ parsed.value.text = Some(<<"a", NL, "a">>)
    /\ parsed.value.offset = Some(1)
    /\ Len(last.calls) = 1
    /\ last.calls[1].line = <<"a">>
    /\ last.calls[1].offset = Some(-1)

\* The stream the call's reporter writes to
reporterStream == IF reporter = None THEN "stderr" ELSE reporter[1].stderr

\* C4: for a SyntaxError whose text is None, check returns 1 and makes one
\* reporter call, problemDecodingSource for the filename; nothing it writes
\* carries the parser's message.
C4_DecodeFailure ==
    (pc # "call" /\ parsed.kind = "SyntaxError" /\ parsed.value.text = None) =>
        /\ pc = "returned"
        /\ last.ret = 1
        /\ last.printed = <<>>
        /\ last.calls = <<[method |-> "problemDecodingSource", filename |-> cur]>>
        /\ \A st \in DOMAIN streams :
              \A i \in 1..Len(streams[st]) : "msg" \notin DOMAIN streams[st][i]

C4_Witness ==
    /\ pc = "returned"
    /\ parsed.kind = "SyntaxError"
    /\ parsed.value.text = None
    /\ parsed.value.offset # None
    /\ reporter = Some(Reporter("err"))
    /\ Len(streams.err) = 2

\* C5: a checkPath whose open or read failed returned 1, made one reporter
\* call, ioError with the path and the error's message, did not run check
\* and raised nothing.
C5_IOFailure ==
    (last.op = "checkPath" /\ last.io \in {"open", "read"}) =>
        /\ last.ret = 1
        /\ last.raised = "none"
        /\ pc # "crashed"
        /\ ~last.checkRan
        /\ last.printed = <<>>
        /\ Len(last.calls) = 1
        /\ last.calls[1].method = "ioError"
        /\ last.calls[1].filename = last.filename
        /\ last.calls[1].msg =
             (IF last.io = "read" THEN "Input/output error"
              ELSE openError(last.filename).args[2])
        /\ LET w == Last(streams.stderr)
           IN  /\ w.fmt = "%s: %s\n"
               /\ w.filename = last.filename
               /\ w.msg = last.calls[1].msg

C5_Witness ==
    /\ pc = "done"
    /\ last.op = "checkPath"
    /\ last.io = "open"
    /\ kindOf(last.filename) = "none"
    /\ returned = <<1>>

\* C6: no call of check or checkPath ends by an exception, and main is
\* never left by one.
C6_NoEscape ==
    /\ last.op \in {"check", "checkPath"} => last.raised = "none"
    /\ (pc = "crashed" => last.op = "main")

\* C7: nothing is written to standard output, and each warning check counts
\* is written to the stream of the reporter passed to it.
C7_WarningsViaReporter ==
    /\ streams.stdout = <<>>
    /\ (pc = "returned" /\ parsed.kind = "tree") =>
          Len(streams[reporterStream]) = last.ret

----------------------------------------------------------------------------
(* C8 *)

Beneath(path, arg) ==
    /\ Len(path) > Len(arg)
    /\ SubSeq(path, 1, Len(arg)) = arg

IsPyFile(path) == kindOf(path) = "file" /\ endswith(Last(path), PySuffix)

\* Every directory between arg and path is a real directory that can be
\* listed, and arg itself can be listed.
Listed(path, arg) ==
    /\ kindOf(arg) \in {"dir", "dirlink"}
    /\ \A k \in (Len(arg) + 1)..(Len(path) - 1) : kindOf(SubSeq(path, 1, k)) = "dir"

HandedFor(i) == SelectSeq(handed, LAMBDA h : h.arg = i)

PathsFor(i) == {HandedFor(i)[k].path : k \in 1..Len(HandedFor(i))}

\* C8 as stated: when main is done, the calls of checkPath follow the order
\* of the arguments; a directory argument gave one call for each file
\* beneath it, at any depth, whose name ends in '.py', and no other; another
\* argument gave one call, on itself.
C8_EveryFileBeneath ==
    pc = "done" =>
        /\ \A k \in 1..(Len(handed) - 1) : handed[k].arg <= handed[k + 1].arg
        /\ \A i \in 1..Len(args) :
              IF isdir(args[i])
              THEN /\ PathsFor(i) = {p \in DOMAIN fs : Beneath(p, args[i]) /\ IsPyFile(p)}
                   /\ Len(HandedFor(i)) = Cardinality(PathsFor(i))
              ELSE HandedFor(i) = <<[arg |-> i, path |-> args[i]]>>

\* C8 amended: the same, for the files beneath a directory argument that are
\* reached from it through real (not symbolically linked) directories that
\* can be listed; and at every moment the calls made so far are among those.
C8_EveryListedFile ==
    /\ \A k \in 1..(Len(handed) - 1) : handed[k].arg <= handed[k + 1].arg
    /\ \A i \in 1..Len(args) :
          LET want == IF isdir(args[i])
                      THEN {p \in DOMAIN fs : /\ Beneath(p, args[i])
                                              /\ IsPyFile(p)
                                              /\ Listed(p, args[i])}
                      ELSE {args[i]}
          IN  /\ PathsFor(i) \subseteq want
              /\ Len(HandedFor(i)) = Cardinality(PathsFor(i))
              /\ pc = "done" => PathsFor(i) = want
    /\ \A k \in 1..Len(handed) : handed[k].arg \in 1..Len(args)

C8_Witness ==
    /\ pc = "done"
    /\ Len(args) = 2
    /\ isdir(args[1])
    /\ ~isdir(args[2])
    /\ Len(handed) = 2
    /\ Len(handed[1].path) = 3
    /\ returned[1] = 1
    /\ handed[2].path = args[2]

\* C9: with no arguments main opens no file and calls checkPath and ioError
\* never; it runs check once, on standard input under the name '<stdin>',
\* and what the reporter writes goes to sys.stderr; empty input counts 0,
\* writes nothing and exits with a false status.
C9_StandardInput ==
    args = <<>> =>
        /\ handed = <<>>
        /\ fh = 0 /\ garbage = 0
        /\ last.op # "checkPath"
        /\ \A i \in 1..Len(last.calls) : last.calls[i].method # "ioError"
        /\ streams.err = <<>>
        /\ Len(last.calls) > 0 => streams.stderr # <<>>
        /\ last.op = "check" => /\ last.filename = StdinName
                                /\ cur = StdinName
        /\ pc = "done" => /\ last.op = "check"
                          /\ Len(returned) = 1
        /\ (pc = "done" /\ content = Some(EmptySource)) =>
              /\ returned = <<0>>
              /\ streams = EmptyStreams
              /\ exitStatus = Some(FALSE)

C9_Witness ==
    /\ args = <<>>
    /\ pc = "done"
    /\ content = Some(EmptySource)
    /\ exitStatus = Some(FALSE)

\* C10: when checkPath has returned, the file it opened is closed, and never
\* is more than one file open.
C10_HandleReleased ==
    /\ fh + garbage <= 1
    /\ pc \in {"loop", "done"} => fh + garbage = 0

====
